---- MODULE Spec2Model ----
(***************************************************************************)
(* Receipt scanner: POST /upload and POST /parse (app/main.py), the queue  *)
(* job process_receipt_job (worker.py), and the services they call         *)
(* (object storage, the LLM parse, the spreadsheet).  Two processes, the   *)
(* HTTP server and the queue worker, share the spreadsheet and the object  *)
(* storage; they interleave at the calls into the external services.       *)
(***************************************************************************)
EXTENDS Integers, Sequences, FiniteSets, TLC

VARIABLES
    API_SECRET_KEY,   \* main.py:22, os.getenv: None when not configured
    pc,               \* position of each process in its handler
    request,          \* the HTTP request being served (or the last one)
    temp,             \* [process -> its temp file exists]
    image_url,        \* [process -> local image_url]
    voice_note,       \* [process -> local voice_note]
    receipt_data,     \* [process -> local receipt_data (a Receipt or None)]
    records,          \* [process -> what sheet.get_all_records() returned]
    append_ret,       \* [process -> what append_receipt returned]
    storage,          \* object storage: the URLs of the stored blobs
    sheet,            \* the spreadsheet: a sequence of rows
    jobs,             \* the task queue: a sequence of jobs
    cur,              \* index in jobs of the job the worker performs (0: none)
    response,         \* the last HTTP response
    llmCalls,         \* calls of OCRService.parse_image so far
    now               \* datetime.now()

vars == <<API_SECRET_KEY, pc, request, temp, image_url, voice_note, receipt_data,
          records, append_ret, storage, sheet, jobs, cur, response,
          llmCalls, now>>

\* ---------------------------------------------------------------- bounds
\* requests received plus jobs enqueued in one run
MaxOps == 2
MaxClock == 1
\* longest generated vendor name
MaxLen == 3
\* rows after which append_receipt is not called again
MaxRows == 3

None == "None"
Procs == {"http", "worker"}

\* ------------------------------------------------------- strings (vendors)
\* A vendor name is a sequence of one-character strings.
LowerMap ==
    [A |-> "a", B |-> "b", C |-> "c", D |-> "d", E |-> "e", F |-> "f",
     G |-> "g", H |-> "h", I |-> "i", J |-> "j", K |-> "k", L |-> "l",
     M |-> "m", N |-> "n", O |-> "o", P |-> "p", Q |-> "q", R |-> "r",
     S |-> "s", T |-> "t", U |-> "u", V |-> "v", W |-> "w", X |-> "x",
     Y |-> "y", Z |-> "z"]

\* str.lower()
lower(s) ==
    [i \in 1..Len(s) |-> IF s[i] \in DOMAIN LowerMap THEN LowerMap[s[i]] ELSE s[i]]

\* keyword in vendor_lower
Contains(kw, s) ==
    \E i \in 0..(Len(s) - Len(kw)) : SubSeq(s, i + 1, i + Len(kw)) = kw

\* The table of _categorize_vendor, in the order the dict is written.
categories ==
    << [category |-> "Groceries",
        keywords |-> << <<"w","a","l","m","a","r","t">>,
                        <<"k","r","o","g","e","r">>,
                        <<"w","h","o","l","e"," ","f","o","o","d","s">>,
                        <<"s","a","f","e","w","a","y">>,
                        <<"c","o","s","t","c","o">> >>],
       [category |-> "Restaurants",
        keywords |-> << <<"m","c","d","o","n","a","l","d","s">>,
                        <<"s","t","a","r","b","u","c","k","s">>,
                        <<"s","u","b","w","a","y">>,
                        <<"t","a","c","o"," ","b","e","l","l">>,
                        <<"c","h","i","p","o","t","l","e">> >>],
       [category |-> "Gas/Fuel",
        keywords |-> << <<"s","h","e","l","l">>,
                        <<"e","x","x","o","n">>,
                        <<"c","h","e","v","r","o","n">>,
                        <<"b","p">>,
                        <<"7","6">> >>],
       [category |-> "Shopping",
        keywords |-> << <<"a","m","a","z","o","n">>,
                        <<"t","a","r","g","e","t">>,
                        <<"b","e","s","t"," ","b","u","y">>,
                        <<"h","o","m","e"," ","d","e","p","o","t">> >>] >>

\* any(keyword in vendor_lower for keyword in keywords)
AnyKeyword(keywords, vendor_lower) ==
    \E k \in 1..Len(keywords) : Contains(keywords[k], vendor_lower)

\* The for loop of _categorize_vendor from table entry i on.
RECURSIVE CategorizeFrom(_, _)
CategorizeFrom(i, vendor_lower) ==
    IF i > Len(categories) THEN "Other"
    ELSE IF AnyKeyword(categories[i].keywords, vendor_lower)
         THEN categories[i].category
         ELSE CategorizeFrom(i + 1, vendor_lower)

\* A slip that forgets vendor_name.lower().
CategorizeVendorNoLower(vendor_name) == CategorizeFrom(1, vendor_name)

_categorize_vendor(vendor_name) == CategorizeFrom(1, lower(vendor_name))

\* ----------------------------------------------------------- the Receipt
\* A URL is a sequence: <<>> is the empty (or absent) URL, <<"receipts", n>>
\* the public URL of the blob whose name carries uuid n.
NoUrl == <<>>
BlobUrl(n) == <<"receipts", n>>
NoDate == <<>>
\* An Optional[float] that is None.
NoNumber == -1

\* models.Receipt: the fields append_receipt reads.  unit_price is in
\* eighths of a dollar (exact binary fractions), total in cents.
Receipt(vendor, date, items) ==
    [vendor_name |-> vendor, total |-> 1250, date |-> date,
     receipt_number |-> None, subtotal |-> NoNumber, tax |-> NoNumber,
     payment_method |-> None, items |-> items,
     voice_note |-> None, image_url |-> NoUrl]

\* f"{unit_price:.2f}": the price in cents, a tie rounded to the even cent.
Fmt2f(unit_price) ==
    LET q == (unit_price * 100) \div 8
        r == (unit_price * 100) % 8
    IN  IF r < 4 THEN q
        ELSE IF r > 4 THEN q + 1
        ELSE IF q % 2 = 0 THEN q ELSE q + 1

\* if item.description and item.quantity and item.unit_price
ItemShown(item) ==
    /\ item.description # ""
    /\ item.quantity # NoNumber /\ item.quantity # 0
    /\ item.unit_price # NoNumber /\ item.unit_price # 0

\* '; '.join([...]): the pieces of items_str, one per item that is shown.
ItemsStr(items) ==
    LET shown == SelectSeq(items, ItemShown)
    IN  [i \in 1..Len(shown) |->
            [description |-> shown[i].description,
             quantity |-> shown[i].quantity,
             price |-> Fmt2f(shown[i].unit_price)]]

\* receipt.date.strftime('%Y-%m-%d') if receipt.date else ''
DateStr(date) == IF date = NoDate THEN <<>> ELSE SubSeq(date, 1, 3)

headers ==
    [kind |-> "header",
     cells |-> <<"Date", "Vendor", "Category", "Total", "Subtotal", "Tax",
                 "Payment Method", "Voice Note", "Items", "Receipt #",
                 "Image URL", "Timestamp">>]

\* row_data of append_receipt
RowData(receipt, timestamp) ==
    [kind |-> "data",
     Date |-> DateStr(receipt.date),
     Vendor |-> receipt.vendor_name,
     Category |-> _categorize_vendor(receipt.vendor_name),
     Total |-> receipt.total,
     Subtotal |-> receipt.subtotal,
     Tax |-> receipt.tax,
     PaymentMethod |-> receipt.payment_method,
     VoiceNote |-> receipt.voice_note,
     Items |-> ItemsStr(receipt.items),
     ReceiptNo |-> receipt.receipt_number,
     ImageURL |-> receipt.image_url,
     Timestamp |-> timestamp]

\* sheet.get_all_records(): the rows under the first row, which is the head.
get_all_records(sh) == IF Len(sh) <= 1 THEN <<>> ELSE Tail(sh)

\* ------------------------------------------------------------- the inputs
Keys == {None, "", "k1", "k2"}          \* X-API-Key; None: no such header
Secrets == {None, "", "k1"}             \* API_SECRET_KEY; None: not set
VoiceNotes == {None, "", "note"}        \* Form(None)

Date1 == <<2024, 3, 9, 18, 30, 0>>
NameBP == <<"B", "P">>
NameCafe == <<"x">>
Item(d, q, u) == [description |-> d, quantity |-> q, unit_price |-> u]

\* What the model answers to the prompt, once validated as a Receipt.
OcrOutputs ==
    { Receipt(NameBP, Date1, << Item("milk", 2, 13) >>),
      Receipt(NameCafe, NoDate, <<>>) }

NoReceipt == <<>>

\* --------------------------------------------------------------- app/main
config == <<API_SECRET_KEY>>
locals == <<image_url, voice_note, receipt_data, records, append_ret>>
queue == <<jobs, cur>>

\* get_api_key: TRUE when the key is returned, FALSE when 403 is raised.
GetApiKeyEqualOnly(api_key) == api_key = API_SECRET_KEY

get_api_key(api_key) ==
    ~(api_key = None \/ api_key = "" \/ api_key # API_SECRET_KEY)

Resp(status, message, data) ==
    [n |-> request.n, op |-> request.op, status |-> status,
     message |-> message, receipt_data |-> data]

\* The handler (or the job) of process p returns: its locals are gone and
\* its finally clause has removed the temp file.
Return(p) ==
    /\ pc' = [pc EXCEPT ![p] = "idle"]
    /\ temp' = [temp EXCEPT ![p] = FALSE]
    /\ image_url' = [image_url EXCEPT ![p] = NoUrl]
    /\ voice_note' = [voice_note EXCEPT ![p] = None]
    /\ receipt_data' = [receipt_data EXCEPT ![p] = NoReceipt]
    /\ records' = [records EXCEPT ![p] = FALSE]
    /\ append_ret' = [append_ret EXCEPT ![p] = None]

\* raise HTTPException(403) in the dependency: the handler body never runs.
Reject(o, k) ==
    /\ pc["http"] = "idle" /\ request.n + Len(jobs) < MaxOps
    /\ ~get_api_key(k)
    /\ request' = [n |-> request.n + 1, op |-> o, api_key |-> k]
    /\ response' = [n |-> request.n + 1, op |-> o, status |-> 403,
                    message |-> "Could not validate credentials",
                    receipt_data |-> NoReceipt]
    /\ UNCHANGED <<config, pc, temp, locals, storage, sheet, queue, llmCalls, now>>

\* upload_receipt up to the temp file being written
UploadAccept(k, v) ==
    /\ pc["http"] = "idle" /\ request.n + Len(jobs) < MaxOps
    /\ get_api_key(k)
    /\ request' = [n |-> request.n + 1, op |-> "upload", api_key |-> k]
    /\ voice_note' = [voice_note EXCEPT !["http"] = v]
    /\ temp' = [temp EXCEPT !["http"] = TRUE]
    /\ pc' = [pc EXCEPT !["http"] = "store"]
    /\ UNCHANGED <<config, image_url, receipt_data, records, append_ret,
                   storage, sheet, queue, response, llmCalls, now>>

\* except Exception -> HTTPException(500); finally: os.remove(temp_file_path)
Fail500 ==
    /\ response' = Resp(500, "An unexpected error occurred", NoReceipt)
    /\ Return("http")

\* A slip that goes on to the parse although the upload raised.
UploadStoreIgnoringFailure ==
    /\ pc["http"] = "store"
    /\ \/ storage' = storage \cup {BlobUrl(request.n)}
       \/ UNCHANGED storage
    /\ image_url' = [image_url EXCEPT !["http"] = BlobUrl(request.n)]
    /\ pc' = [pc EXCEPT !["http"] = "parse"]
    /\ UNCHANGED <<config, request, temp, voice_note, receipt_data, records,
                   append_ret, sheet, queue, response, llmCalls, now>>

\* storage_service.upload_file: the blob is stored and its public URL
\* returned, or the upload raises.
UploadStore ==
    /\ pc["http"] = "store"
    /\ \/ /\ storage' = storage \cup {BlobUrl(request.n)}
          /\ image_url' = [image_url EXCEPT !["http"] = BlobUrl(request.n)]
          /\ pc' = [pc EXCEPT !["http"] = "parse"]
          /\ UNCHANGED <<response, temp, voice_note, receipt_data, records,
                         append_ret>>
       \/ /\ Fail500
          /\ UNCHANGED storage
    /\ UNCHANGED <<config, request, sheet, queue, llmCalls, now>>

\* receipt_data.image_url = image_url; if voice_note: receipt_data.voice_note = ...
Supplement(r, url, note) ==
    [r EXCEPT !.image_url = url,
              !.voice_note = IF note # None /\ note # "" THEN note ELSE @]

\* ocr_service.parse_image in upload_receipt, and the lines after it
UploadParse ==
    /\ pc["http"] = "parse"
    /\ llmCalls' = llmCalls + 1
    /\ \/ \E r \in OcrOutputs :
            /\ receipt_data' = [receipt_data EXCEPT !["http"] =
                                  <<Supplement(r, image_url["http"], voice_note["http"])>>]
            /\ pc' = [pc EXCEPT !["http"] = "read"]
            /\ UNCHANGED <<response, temp, image_url, voice_note, records,
                           append_ret>>
       \/ Fail500
    /\ UNCHANGED <<config, request, storage, sheet, queue, now>>

\* ------------------------------------------------- SheetsService.append_receipt
\* except Exception: return False
AppendRaise(p) ==
    /\ append_ret' = [append_ret EXCEPT ![p] = "False"]
    /\ pc' = [pc EXCEPT ![p] = "appended"]

\* open_by_url(...).sheet1 and sheet.get_all_records()
AppendRead(p) ==
    /\ pc[p] = "read"
    /\ \/ /\ records' = [records EXCEPT ![p] = (get_all_records(sheet) # <<>>)]
          /\ pc' = [pc EXCEPT ![p] =
                      IF get_all_records(sheet) # <<>> THEN "row" ELSE "header"]
          /\ UNCHANGED append_ret
       \/ /\ AppendRaise(p)
          /\ UNCHANGED records
    /\ UNCHANGED <<config, request, temp, image_url, voice_note, receipt_data,
                   storage, sheet, queue, response, llmCalls, now>>

\* if not sheet.get_all_records(): sheet.append_row(headers)
AppendHeader(p) ==
    /\ pc[p] = "header"
    /\ \/ /\ sheet' = Append(sheet, headers)
          /\ pc' = [pc EXCEPT ![p] = "row"]
          /\ UNCHANGED append_ret
       \/ /\ AppendRaise(p)
          /\ UNCHANGED sheet
    /\ UNCHANGED <<config, request, temp, image_url, voice_note, receipt_data,
                   records, storage, queue, response, llmCalls, now>>

\* items_str, date_str, row_data; sheet.append_row(row_data); return True
AppendRow(p) ==
    /\ pc[p] = "row"
    /\ \/ /\ sheet' = Append(sheet, RowData(receipt_data[p][1], now))
          /\ append_ret' = [append_ret EXCEPT ![p] = "True"]
          /\ pc' = [pc EXCEPT ![p] = "appended"]
       \/ /\ AppendRaise(p)
          /\ UNCHANGED sheet
    /\ UNCHANGED <<config, request, temp, image_url, voice_note, receipt_data,
                   records, storage, queue, response, llmCalls, now>>

\* ------------------------------------------------------ app/main, continued
Job(u, v) == [image_url |-> u, voice_note |-> v, status |-> "queued",
              report |-> "none"]

\* A queue-backed variant: acknowledge once the image is stored and a job
\* for it is enqueued, leaving the parse and the append to the worker.
UploadRespondAfterEnqueue ==
    /\ pc["http"] = "parse"
    /\ jobs' = Append(jobs, Job(image_url["http"], voice_note["http"]))
    /\ response' = Resp(200, "Receipt processed and uploaded successfully.",
                        NoReceipt)
    /\ Return("http")
    /\ UNCHANGED <<config, request, storage, sheet, cur, llmCalls, now>>

\* return UploadResponse(...): the value of append_receipt is not looked at.
UploadRespond ==
    /\ pc["http"] = "appended"
    /\ response' = Resp(200, "Receipt processed and uploaded successfully.",
                        receipt_data["http"])
    /\ Return("http")
    /\ UNCHANGED <<config, request, storage, sheet, queue, llmCalls, now>>

\* parse_receipt_only up to the temp file being written
ParseAccept(k) ==
    /\ pc["http"] = "idle" /\ request.n + Len(jobs) < MaxOps
    /\ get_api_key(k)
    /\ request' = [n |-> request.n + 1, op |-> "parse", api_key |-> k]
    /\ temp' = [temp EXCEPT !["http"] = TRUE]
    /\ pc' = [pc EXCEPT !["http"] = "parse_only"]
    /\ UNCHANGED <<config, locals, storage, sheet, queue, response, llmCalls, now>>

\* A slip that saves the parsed receipt as /upload does.
ParseOnlySaving ==
    /\ pc["http"] = "parse_only"
    /\ llmCalls' = llmCalls + 1
    /\ \E r \in OcrOutputs :
          /\ sheet' = Append(sheet, RowData(r, now))
          /\ response' = Resp(200, "", <<r>>)
    /\ Return("http")
    /\ UNCHANGED <<config, request, storage, queue, now>>

\* ocr_service.parse_image in parse_receipt_only, and its return
ParseOnly ==
    /\ pc["http"] = "parse_only"
    /\ llmCalls' = llmCalls + 1
    /\ \/ \E r \in OcrOutputs : response' = Resp(200, "", <<r>>)
       \/ response' = Resp(500, "An unexpected error occurred", NoReceipt)
    /\ Return("http")
    /\ UNCHANGED <<config, request, storage, sheet, queue, now>>

\* ----------------------------------------------------------------- worker
\* The producer of jobs is not part of these sources: a job names the URL
\* of a stored image, an empty URL, or a URL under which nothing is stored.
Enqueue(u, v) ==
    /\ request.n + Len(jobs) < MaxOps
    /\ jobs' = Append(jobs, Job(u, v))
    /\ UNCHANGED <<config, pc, request, temp, locals, storage, sheet, cur,
                   response, llmCalls, now>>

\* worker.work(): take the oldest queued job and call process_receipt_job.
JobStart ==
    /\ pc["worker"] = "idle"
    /\ \E i \in 1..Len(jobs) :
          /\ jobs[i].status = "queued"
          /\ \A j \in 1..(i - 1) : jobs[j].status # "queued"
          /\ cur' = i
          /\ jobs' = [jobs EXCEPT ![i].status = "started"]
          /\ image_url' = [image_url EXCEPT !["worker"] = jobs[i].image_url]
          /\ voice_note' = [voice_note EXCEPT !["worker"] = jobs[i].voice_note]
    /\ pc' = [pc EXCEPT !["worker"] = "download"]
    /\ UNCHANGED <<config, request, temp, receipt_data, records, append_ret,
                   storage, sheet, response, llmCalls, now>>

\* The job function has returned: the queue records the job as finished.
JobReturn(report) ==
    /\ jobs' = [jobs EXCEPT ![cur].status = "finished", ![cur].report = report]
    /\ cur' = 0
    /\ Return("worker")

\* except Exception: print("WORKER: Job failed ..."); finally: remove the
\* file.  The exception is not raised again.
JobFailed == JobReturn("failed")

\* requests.get(image_url); r.raise_for_status(); copy to local_filename
JobDownload ==
    /\ pc["worker"] = "download"
    /\ \/ /\ image_url["worker"] \in storage
          /\ temp' = [temp EXCEPT !["worker"] = TRUE]
          /\ pc' = [pc EXCEPT !["worker"] = "parse"]
          /\ UNCHANGED <<locals, queue>>
       \/ JobFailed
    /\ UNCHANGED <<config, request, storage, sheet, response, llmCalls, now>>

\* ocr_service.parse_image in process_receipt_job, and the lines after it
JobParse ==
    /\ pc["worker"] = "parse"
    /\ llmCalls' = llmCalls + 1
    /\ \/ \E r \in OcrOutputs :
            /\ receipt_data' = [receipt_data EXCEPT !["worker"] =
                  <<Supplement(r, image_url["worker"], voice_note["worker"])>>]
            /\ pc' = [pc EXCEPT !["worker"] = "read"]
            /\ UNCHANGED <<queue, temp, image_url, voice_note, records,
                           append_ret>>
       \/ JobFailed
    /\ UNCHANGED <<config, request, storage, sheet, response, now>>

\* print("WORKER: Successfully processed and saved receipt for job.")
JobFinish ==
    /\ pc["worker"] = "appended"
    /\ JobReturn("success")
    /\ UNCHANGED <<config, request, storage, sheet, response, llmCalls, now>>

\* datetime.now() advances.
Tick ==
    /\ now < MaxClock
    /\ now' = now + 1
    /\ UNCHANGED <<config, pc, request, temp, locals, storage, sheet, queue,
                   response, llmCalls>>

\* ------------------------------------------------------ the specification
Init ==
    /\ API_SECRET_KEY \in Secrets
    /\ pc = [p \in Procs |-> "idle"]
    /\ request = [n |-> 0, op |-> "none", api_key |-> None]
    /\ temp = [p \in Procs |-> FALSE]
    /\ image_url = [p \in Procs |-> NoUrl]
    /\ voice_note = [p \in Procs |-> None]
    /\ receipt_data = [p \in Procs |-> NoReceipt]
    /\ records = [p \in Procs |-> FALSE]
    /\ append_ret = [p \in Procs |-> None]
    /\ storage = {}
    /\ sheet = <<>>
    /\ jobs = <<>>
    /\ cur = 0
    /\ response = [n |-> 0, op |-> "none", status |-> 0, message |-> "",
                   receipt_data |-> NoReceipt]
    /\ llmCalls = 0
    /\ now = 0

\* The clock is read only for the Timestamp column; it is held still here
\* and advances in SpecFmt, where the rows of one Receipt are compared.
Next ==
    \/ \E o \in {"upload", "parse"}, k \in Keys : Reject(o, k)
    \/ \E k \in Keys, v \in VoiceNotes : UploadAccept(k, v)
    \/ UploadStore
    \/ UploadParse
    \/ \E p \in Procs : AppendRead(p)
    \/ \E p \in Procs : AppendHeader(p)
    \/ \E p \in Procs : AppendRow(p)
    \/ UploadRespond
    \/ \E k \in Keys : ParseAccept(k)
    \/ ParseOnly
    \/ \E u \in storage \cup {NoUrl, BlobUrl(0)}, v \in VoiceNotes : Enqueue(u, v)
    \/ JobStart
    \/ JobDownload
    \/ JobParse
    \/ JobFinish

Spec == Init /\ [][Next]_vars

\* ------------------------------------------- append_receipt on any Receipt
FmtAlphabet == {"b", "p", "B", "7", "6", "x"}

RECURSIVE Strings(_)
Strings(n) ==
    IF n = 0 THEN {<<>>}
    ELSE LET shorter == Strings(n - 1)
         IN  shorter \cup {Append(w, c) : w \in shorter, c \in FmtAlphabet}

RealNames ==
    { <<"W", "a", "l", "m", "a", "r", "t">>,
      <<"W", "H", "O", "L", "E", " ", "F", "O", "O", "D", "S">>,
      <<"S", "t", "a", "r", "b", "u", "c", "k", "s">>,
      <<"T", "a", "c", "o", " ", "B", "e", "l", "l">>,
      <<"S", "H", "E", "L", "L">>,
      <<"C", "h", "e", "v", "r", "o", "n", " ", "7", "6">>,
      <<"A", "m", "a", "z", "o", "n">>,
      <<"B", "e", "s", "t", " ", "B", "u", "y">>,
      <<"T", "a", "r", "g", "e", "t", " ", "S", "h", "e", "l", "l">>,
      <<"C", "o", "s", "t", "c", "o", " ", "S", "u", "b", "w", "a", "y">>,
      <<"J", "o", "e", "'", "s", " ", "D", "i", "n", "e", "r">>,
      <<"s", "u", "b", "W", "a", "y">> }

FmtNames == Strings(MaxLen) \cup RealNames

FmtItems ==
    { <<>>,
      << Item("milk", 2, 13) >>,
      << Item("milk", 2, 13), Item("", 1, 8), Item("tea", 0, 8),
         Item("gum", NoNumber, 8), Item("bag", 1, NoNumber),
         Item("free", 1, 0), Item("egg", 3, 11) >> }

FmtReceipts ==
    { Supplement(Receipt(v, Date1, << Item("milk", 2, 13) >>), BlobUrl(1), "note") :
        v \in FmtNames }
    \cup
    { Supplement(Receipt(NameBP, d, its), BlobUrl(1), None) :
        d \in {NoDate, Date1}, its \in FmtItems }

\* upload_receipt about to call append_receipt, for any Receipt.
InitFmt ==
    /\ API_SECRET_KEY = "k1"
    /\ pc = [p \in Procs |-> IF p = "http" THEN "read" ELSE "idle"]
    /\ request = [n |-> 1, op |-> "upload", api_key |-> "k1"]
    /\ temp = [p \in Procs |-> p = "http"]
    /\ image_url = [p \in Procs |-> IF p = "http" THEN BlobUrl(1) ELSE NoUrl]
    /\ voice_note = [p \in Procs |-> None]
    /\ \E r \in FmtReceipts :
          receipt_data = [p \in Procs |-> IF p = "http" THEN <<r>> ELSE NoReceipt]
    /\ records = [p \in Procs |-> FALSE]
    /\ append_ret = [p \in Procs |-> None]
    /\ storage = {BlobUrl(1)}
    /\ sheet = <<>>
    /\ jobs = <<>>
    /\ cur = 0
    /\ response = [n |-> 0, op |-> "none", status |-> 0, message |-> "",
                   receipt_data |-> NoReceipt]
    /\ llmCalls = 1
    /\ now = 0

\* append_receipt is called once more with the same Receipt object.
AppendAgain ==
    /\ pc["http"] = "appended"
    /\ Len(sheet) < MaxRows
    /\ pc' = [pc EXCEPT !["http"] = "read"]
    /\ append_ret' = [append_ret EXCEPT !["http"] = None]
    /\ records' = [records EXCEPT !["http"] = FALSE]
    /\ UNCHANGED <<config, request, temp, image_url, voice_note, receipt_data,
                   storage, sheet, queue, response, llmCalls, now>>

NextFmt ==
    \/ AppendRead("http")
    \/ AppendHeader("http")
    \/ AppendRow("http")
    \/ AppendAgain
    \/ Tick

SpecFmt == InitFmt /\ [][NextFmt]_vars

\* ------------------------------------------------------------- properties
DataRows == {i \in 1..Len(sheet) : sheet[i].kind = "data"}
HasRowFor(url) == \E i \in DataRows : sheet[i].ImageURL = url
HttpStepped ==
    pc'["http"] # pc["http"] \/ request' # request \/ response' # response

C2_AckAfterEnqueueOnly ==
    (response.op = "upload" /\ response.status = 200) =>
        /\ BlobUrl(response.n) \in storage
        /\ \E j \in 1..Len(jobs) : jobs[j].image_url = BlobUrl(response.n)

\* C2 (amended): POST /upload is synchronous.  No step of the HTTP server
\* changes the queue, and the success acknowledgment is sent only when the
\* image is stored, the parse has returned a Receipt and append_receipt has
\* returned, inside the request; it carries that Receipt.
C2_UploadIsSynchronous ==
    [][ /\ HttpStepped => jobs' = jobs
        /\ (response' # response /\ response'.op = "upload"
              /\ response'.status = 200) =>
             /\ pc["http"] = "appended"
             /\ append_ret["http"] \in {"True", "False"}
             /\ receipt_data["http"] # NoReceipt
             /\ response'.receipt_data = receipt_data["http"]
             /\ image_url["http"] \in storage
      ]_vars

\* C2 witness: an upload was acknowledged with nothing on the queue.
C2_Witness ==
    /\ response.op = "upload" /\ response.status = 200
    /\ response.receipt_data # NoReceipt
    /\ jobs = <<>>

\* C3: a failed execution of process_receipt_job is surfaced to the queue:
\* a job for a stored image that the queue records as finished (so never
\* retries) reported success and has its row.
C3_FailureSurfacedForRetry ==
    \A j \in 1..Len(jobs) :
        (jobs[j].status = "finished" /\ jobs[j].image_url \in storage) =>
            /\ jobs[j].report = "success"
            /\ HasRowFor(jobs[j].image_url)

\* C5: a success answer of POST /upload, and a success report of
\* process_receipt_job, mean that the receipt's row is in the sheet.
C5_SuccessImpliesRowRecorded ==
    /\ (response.op = "upload" /\ response.status = 200) =>
          HasRowFor(BlobUrl(response.n))
    /\ \A j \in 1..Len(jobs) :
          jobs[j].report = "success" => HasRowFor(jobs[j].image_url)

\* C6: no step of a POST /parse request, accepted or rejected, succeeding or
\* failing, changes the spreadsheet or the object storage.
C6_ParseSavesNothing ==
    [][ (request'.op = "parse" /\ HttpStepped) =>
            (sheet' = sheet /\ storage' = storage) ]_vars

\* C6 witness: /parse answered with a receipt while the sheet and the storage
\* hold an earlier upload.
C6_Witness ==
    /\ response.op = "parse" /\ response.status = 200
    /\ response.receipt_data # NoReceipt
    /\ DataRows # {} /\ storage # {}

\* C7: a request whose X-API-Key is missing, empty or different from
\* API_SECRET_KEY (set or not) is answered 403, and the handler does not run:
\* no temp file, no upload, no LLM call, no append.
C7_Invalid(k) == k = None \/ k = "" \/ k # API_SECRET_KEY

\* C7: the step that receives a request with such a key answers 403 and
\* changes neither a process position nor a temp file, the storage, the
\* sheet or the count of LLM calls.
C7_BadKeyRejectedWithoutEffect ==
    [][ (request'.n = request.n + 1 /\ C7_Invalid(request'.api_key)) =>
            /\ response'.status = 403
            /\ response'.n = request'.n
            /\ pc' = pc
            /\ temp' = temp
            /\ storage' = storage
            /\ sheet' = sheet
            /\ llmCalls' = llmCalls ]_vars

\* C7 witness: with API_SECRET_KEY not set, a request without the header was
\* answered 403.
C7_Witness ==
    /\ API_SECRET_KEY = None
    /\ request.n > 0 /\ request.api_key = None
    /\ response.n = request.n /\ response.status = 403

\* C8: the sheet holds the header row exactly once, as its first row, and
\* every other row is a data row.
C8_HeaderOnceAndFirst ==
    sheet # <<>> =>
        /\ sheet[1].kind = "header"
        /\ \A i \in 2..Len(sheet) : sheet[i].kind = "data"

\* C4: every data row's Category is one of the five categories, namely the
\* first category in table order with a keyword contained in the lower-cased
\* vendor name, else Other; it is the same for the name in the other letter
\* case; append_receipt leaves the Receipt as it was; and the rows written
\* for the same Receipt agree in every column but the Timestamp.
C4_Match(i, name) == AnyKeyword(categories[i].keywords, lower(name))

C4_SwapCase(s) ==
    [i \in 1..Len(s) |->
        IF s[i] \in DOMAIN LowerMap THEN LowerMap[s[i]]
        ELSE IF \E u \in DOMAIN LowerMap : LowerMap[u] = s[i]
             THEN CHOOSE u \in DOMAIN LowerMap : LowerMap[u] = s[i]
             ELSE s[i]]

C4_RowsOfReceipt ==
    \A i \in DataRows :
        LET r == receipt_data["http"][1]
            c == sheet[i].Category
        IN  /\ c \in {"Groceries", "Restaurants", "Gas/Fuel", "Shopping", "Other"}
            /\ \/ /\ c = "Other"
                  /\ \A k \in 1..Len(categories) : ~C4_Match(k, r.vendor_name)
               \/ \E k \in 1..Len(categories) :
                     /\ categories[k].category = c
                     /\ C4_Match(k, r.vendor_name)
                     /\ \A m \in 1..(k - 1) : ~C4_Match(m, r.vendor_name)
            /\ _categorize_vendor(C4_SwapCase(r.vendor_name)) = c
            /\ sheet[i].Vendor = r.vendor_name
            /\ \A j \in DataRows :
                  [sheet[j] EXCEPT !.Timestamp = 0] = [sheet[i] EXCEPT !.Timestamp = 0]

\* C4: categorization and formatting are idempotent: in every state the rows
\* of the Receipt satisfy C4_RowsOfReceipt, and no step changes the Receipt.
C4_CategorizeAndFormatIdempotent ==
    /\ []C4_RowsOfReceipt
    /\ [][receipt_data' = receipt_data]_vars

\* C4 witness: the same Receipt, whose vendor name matches a keyword only
\* once lower-cased, was formatted twice at different times.
C4_Witness ==
    /\ \E i, j \in DataRows :
          /\ sheet[i].Timestamp # sheet[j].Timestamp
          /\ sheet[i].Category = "Gas/Fuel"
    /\ receipt_data["http"][1].vendor_name # lower(receipt_data["http"][1].vendor_name)
====
